---------------------------- MODULE Spec2Model ----------------------------
(***************************************************************************)
(* Model of checkpipe (src/lib.rs): the Check trait, its two               *)
(* implementations (InnerCounter and the blanket impl for Hasher, used     *)
(* with DefaultHasher) and the Checker<C, T> decorator that forwards       *)
(* read/write/flush to an inner handle and feeds the confirmed bytes to    *)
(* the Check value.                                                        *)
(*                                                                         *)
(* A read or write call is modelled in the three steps the code takes:     *)
(* the call is entered, the inner handle replies, the checker is updated   *)
(* and the call returns.  The program is single threaded, so no other      *)
(* operation runs between the steps of a call (pc guards this).            *)
(***************************************************************************)
EXTENDS Integers, Sequences, FiniteSets, TLC

(* ------------------------------ bounds -------------------------------- *)
\* number of read/write/flush calls made in one behaviour
MaxCalls == 2
\* number of swaps, rebuilds and decompositions made in one behaviour
MaxSwaps == 1
\* longest byte sequence fed to a bare accumulator in the chunking check
MaxStream == 4

\* byte values used (u8 values; two distinct values make order visible)
Bytes == {0, 1}

Min(a, b) == IF a < b THEN a ELSE b

\* all byte sequences of length 0..n
SeqsUpTo(n) == UNION {[1..k -> Bytes] : k \in 0..n}

(* --------------------------- Check: counter --------------------------- *)
\* InnerCounter::default(): the derived Default of InnerCounter(usize)
InnerCounter_default == [kind |-> "counter", n |-> 0]

\* mutant: the counter counts update calls, not bytes
InnerCounter_update_calls(c, chunk) == [c EXCEPT !.n = c.n + 1]

\* InnerCounter::update: self.0 += buf.len()
InnerCounter_update(c, chunk) == [c EXCEPT !.n = c.n + Len(chunk)]

\* InnerCounter::output: self.0
InnerCounter_output(c) == c.n

(* --------------------------- Check: hasher ---------------------------- *)
(* The blanket impl forwards update to Hasher::write and output to         *)
(* Hasher::finish.  The hasher the crate names is DefaultHasher, a         *)
(* streaming SipHash: it keeps the total length, a state, and a tail of    *)
(* the bytes that do not yet fill a word; write merges the tail with the   *)
(* new bytes and compresses every full word; finish compresses the tail    *)
(* together with the length and finalises, without changing the hasher.    *)
(* The model keeps that structure at reduced width: words of WordLen       *)
(* bytes and a state in 0..HashMod-1.                                      *)
WordLen == 2
HashMod == 251
HashIV == 5

RECURSIVE LE(_)
\* little-endian value of a byte sequence
LE(w) == IF w = <<>> THEN 0 ELSE w[1] + 256 * LE(Tail(w))

RECURSIVE Pow256(_)
Pow256(k) == IF k = 0 THEN 1 ELSE 256 * Pow256(k - 1)

\* one compression of the state with a message word
Compress(v, m) == (31 * ((v + m) % HashMod) + m + 1) % HashMod

\* the finalisation rounds
Finalize(v) == (17 * v + 255) % HashMod

\* DefaultHasher::default()
DefaultHasher_default == [kind |-> "hasher", v |-> HashIV, tail |-> <<>>, length |-> 0]

RECURSIVE ProcessWords(_, _)
\* compress the full words of s, keep what is left as the tail
ProcessWords(h, s) ==
  IF Len(s) < WordLen
  THEN [h EXCEPT !.tail = s]
  ELSE ProcessWords([h EXCEPT !.v = Compress(h.v, LE(SubSeq(s, 1, WordLen)))],
                    SubSeq(s, WordLen + 1, Len(s)))

\* mutant: a write drops the pending tail instead of merging it
Hasher_write_droptail(h, msg) ==
  ProcessWords([h EXCEPT !.length = h.length + Len(msg)], msg)

\* Hasher::write of the streaming hasher
Hasher_write(h, msg) ==
  LET h1 == [h EXCEPT !.length = h.length + Len(msg)]
      needed == WordLen - Len(h.tail)
  IN  IF h.tail # <<>>
      THEN IF Len(msg) < needed
           THEN [h1 EXCEPT !.tail = h.tail \o msg]
           ELSE ProcessWords(
                  [h1 EXCEPT !.v = Compress(h.v, LE(h.tail \o SubSeq(msg, 1, needed))),
                             !.tail = <<>>],
                  SubSeq(msg, needed + 1, Len(msg)))
      ELSE ProcessWords(h1, msg)

\* Hasher::finish of the streaming hasher; does not change the hasher
Hasher_finish(h) ==
  Finalize(Compress(h.v, (h.length % 256) * Pow256(WordLen - 1) + LE(h.tail)))

(* ------------------------------ Check --------------------------------- *)
\* Check::update, dispatched on the implementing type
update(c, chunk) ==
  IF c.kind = "counter" THEN InnerCounter_update(c, chunk)
                        ELSE Hasher_write(c, chunk)

\* Check::output, dispatched on the implementing type
output(c) ==
  IF c.kind = "counter" THEN InnerCounter_output(c)
                        ELSE Hasher_finish(c)

\* Default::default() of the type of c
DefaultOf(kind) ==
  IF kind = "counter" THEN InnerCounter_default ELSE DefaultHasher_default

(* --------------------------- inner handle ----------------------------- *)
(* The inner value T is any reader/writer.  The model uses an in-memory    *)
(* handle: src/pos are the bytes it can be read from and the read          *)
(* position, sink the bytes it has accepted, flushed how many of them a    *)
(* successful flush has pushed out.  What a call does is chosen by the     *)
(* environment: a full or short transfer, or an error.  An "Interrupted"   *)
(* error leaves the handle where it was; an "Other" error has consumed     *)
(* the bytes of the call without reporting them.                           *)
Errors == {"Interrupted", "Other"}

Ok(n) == [ok |-> TRUE, n |-> n]
Err(e) == [ok |-> FALSE, err |-> e]

MkInner(src) == [src |-> src, pos |-> 0, sink |-> <<>>, flushed |-> 0]

\* the handles a caller builds a Checker from, or swaps in
NewInners == {MkInner(<<0, 1, 1>>), MkInner(<<1, 0>>)}

\* the outcomes the environment can choose for a call on handle h with buffer b
Choices(op, h, b) ==
  CASE op = "read" ->
         {[ok |-> TRUE, n |-> n] : n \in 0..Min(Len(b), Len(h.src) - h.pos)}
         \cup {[ok |-> FALSE, err |-> "Interrupted", adv |-> 0],
               [ok |-> FALSE, err |-> "Other", adv |-> Min(Len(b), Len(h.src) - h.pos)]}
    [] op = "write" ->
         {[ok |-> TRUE, n |-> n] : n \in 0..Len(b)}
         \cup {[ok |-> FALSE, err |-> "Interrupted", adv |-> 0],
               [ok |-> FALSE, err |-> "Other", adv |-> Len(b)]}
    [] OTHER ->
         {[ok |-> TRUE, n |-> 0]} \cup {[ok |-> FALSE, err |-> e, adv |-> 0] : e \in Errors}

\* T::read(buf): the handle after the call, the buffer after the call, the result
Inner_read(h, b, ch) ==
  IF ch.ok
  THEN [h   |-> [h EXCEPT !.pos = h.pos + ch.n],
        buf |-> SubSeq(h.src, h.pos + 1, h.pos + ch.n) \o SubSeq(b, ch.n + 1, Len(b)),
        res |-> Ok(ch.n)]
  ELSE [h   |-> [h EXCEPT !.pos = h.pos + ch.adv],
        buf |-> b,
        res |-> Err(ch.err)]

\* T::write(buf)
Inner_write(h, b, ch) ==
  IF ch.ok
  THEN [h   |-> [h EXCEPT !.sink = h.sink \o SubSeq(b, 1, ch.n)],
        buf |-> b,
        res |-> Ok(ch.n)]
  ELSE [h   |-> [h EXCEPT !.sink = h.sink \o SubSeq(b, 1, ch.adv)],
        buf |-> b,
        res |-> Err(ch.err)]

\* bytes a call really moved through the handle: its own advance from h to h2
Advance(h, h2) == (h2.pos - h.pos) + (Len(h2.sink) - Len(h.sink))

\* T::flush()
Inner_flush(h, ch) ==
  IF ch.ok
  THEN [h |-> [h EXCEPT !.flushed = Len(h.sink)], buf |-> <<>>, res |-> Ok(0)]
  ELSE [h |-> h, buf |-> <<>>, res |-> Err(ch.err)]

(* ------------------------------ Checker ------------------------------- *)
\* Checker::new
new(checker, inner) == [checker |-> checker, inner |-> inner]

\* Checker::new_default
new_default(kind, inner) == [checker |-> DefaultOf(kind), inner |-> inner]

\* Checker::new_default_hasher
new_default_hasher(inner) == [checker |-> DefaultHasher_default, inner |-> inner]

\* mutant: decomposition hands out a default accumulator
into_parts_fresh(self) == <<DefaultOf(self.checker.kind), self.inner>>

\* Checker::into_parts
into_parts(self) == <<self.checker, self.inner>>

\* mutant: the old accumulator is dropped and the new one handed back
replace_checker_lost(self, c2) ==
  [self |-> [self EXCEPT !.checker = c2], old |-> c2]

\* Checker::replace_checker: std::mem::replace(&mut self.checker, new)
replace_checker(self, c2) ==
  [self |-> [self EXCEPT !.checker = c2], old |-> self.checker]

\* mutant: the hasher is copied out and stays installed
reset_hasher_keep(self) == [self |-> self, old |-> self.checker]

\* Checker::reset_hasher: std::mem::take(&mut self.checker)
reset_hasher(self) ==
  [self |-> [self EXCEPT !.checker = DefaultHasher_default], old |-> self.checker]

\* mutant: swapping the handle starts the accumulator afresh
replace_inner_fresh(self, t2) ==
  [self |-> [checker |-> DefaultOf(self.checker.kind), inner |-> t2],
   old  |-> self.inner]

\* Checker::replace_inner: std::mem::replace(&mut self.inner, inner)
replace_inner(self, t2) ==
  [self |-> [self EXCEPT !.inner = t2], old |-> self.inner]

\* mutant: the rebuilt Checker holds the handle rewound to its start
rebuild_with_checker_rewound(self, c2) ==
  LET p == into_parts(self)
  IN  [self |-> new(c2, [p[2] EXCEPT !.pos = 0]), old |-> p[1]]

\* Checker::rebuild_with_checker
rebuild_with_checker(self, c2) ==
  LET p == into_parts(self) IN [self |-> new(c2, p[2]), old |-> p[1]]

\* Checker::rebuild_with_inner
rebuild_with_inner(self, t2) ==
  LET p == into_parts(self) IN [self |-> new(p[1], t2), old |-> p[2]]

\* Checker::output
Checker_output(self) == output(self.checker)

\* mutant: reading the value out finalises the accumulator, which starts afresh
output_call_finalize(self) ==
  [self |-> [self EXCEPT !.checker = DefaultOf(self.checker.kind)],
   val  |-> output(self.checker)]

\* Checker::output as a call on &self: the Checker after the call and the value
output_call(self) == [self |-> self, val |-> output(self.checker)]

\* mutant: the accumulator is fed the whole buffer
UpdateRange_all(b, out) == b

\* &buf[..out]: the range read and write feed to the accumulator
UpdateRange(b, out) == SubSeq(b, 1, out)

\* the value of a Checker that has been moved out of (into_parts took self)
Moved == [checker |-> [kind |-> "moved"], inner |-> [kind |-> "moved"]]

\* accumulators a caller can hand in: fresh, or already fed a byte
NewCheckers(kind) == {DefaultOf(kind), update(DefaultOf(kind), <<1>>)}
Kinds == {"counter", "hasher"}

\* buffers a caller passes to write, and (prefilled with 1s) to read
WriteBufs == {<<1>>, <<0, 1>>}
ReadBufs == {<<1>>, <<1, 1>>}

(* --------------------- read / write / flush steps --------------------- *)
\* mutant: the accumulator is fed the requested range before the reply is known
read_call_eager(self, b, ch) ==
  LET r == Inner_read(self.inner, b, ch)
  IN  [self |-> [self EXCEPT !.inner = r.h, !.checker = update(self.checker, b)],
       buf |-> r.buf, res |-> r.res, done |-> ~r.res.ok]

\* mutant: an error of the inner read is swallowed and reported as Ok(0)
read_call_swallow(self, b, ch) ==
  LET r == Inner_read(self.inner, b, ch)
  IN  [self |-> [self EXCEPT !.inner = r.h], buf |-> r.buf,
       res |-> IF r.res.ok THEN r.res ELSE Ok(0), done |-> FALSE]

\* read, line 109: let out = self.inner.read(buf)?  (done: `?` returned the error)
read_call(self, b, ch) ==
  LET r == Inner_read(self.inner, b, ch)
  IN  [self |-> [self EXCEPT !.inner = r.h], buf |-> r.buf, res |-> r.res,
       done |-> ~r.res.ok]

\* mutant: read reports the requested length
read_finish_len(self, b, n) ==
  [self  |-> [self EXCEPT !.checker = update(self.checker, UpdateRange(b, n))],
   chunk |-> UpdateRange(b, n),
   res   |-> Ok(Len(b))]

\* mutant: read feeds the accumulator the whole buffer
read_finish_requested(self, b, n) ==
  [self  |-> [self EXCEPT !.checker = update(self.checker, b)],
   chunk |-> b,
   res   |-> Ok(n)]

\* read, lines 110-111: self.checker.update(&buf[..out]); Ok(out)
read_finish(self, b, n) ==
  [self  |-> [self EXCEPT !.checker = update(self.checker, UpdateRange(b, n))],
   chunk |-> UpdateRange(b, n),
   res   |-> Ok(n)]

\* mutant: a failed write still feeds the accumulator the buffer
write_call_counted(self, b, ch) ==
  LET r == Inner_write(self.inner, b, ch)
  IN  [self |-> [self EXCEPT !.inner = r.h,
                             !.checker = IF r.res.ok THEN @ ELSE update(@, b)],
       buf |-> r.buf, res |-> r.res, done |-> ~r.res.ok]

\* write, line 117: let out = self.inner.write(buf)?
write_call(self, b, ch) ==
  LET r == Inner_write(self.inner, b, ch)
  IN  [self |-> [self EXCEPT !.inner = r.h], buf |-> r.buf, res |-> r.res,
       done |-> ~r.res.ok]

\* mutant: write feeds the accumulator the requested bytes
write_finish_requested(self, b, n) ==
  [self  |-> [self EXCEPT !.checker = update(self.checker, b)],
   chunk |-> b,
   res   |-> Ok(n)]

\* write, lines 118-119: self.checker.update(&buf[..out]); Ok(out)
write_finish(self, b, n) ==
  [self  |-> [self EXCEPT !.checker = update(self.checker, UpdateRange(b, n))],
   chunk |-> UpdateRange(b, n),
   res   |-> Ok(n)]

\* mutant: flush starts the accumulator afresh
flush_call_reset(self, ch) ==
  LET r == Inner_flush(self.inner, ch)
  IN  [self |-> [self EXCEPT !.inner = r.h, !.checker = DefaultOf(self.checker.kind)],
       buf |-> r.buf, res |-> r.res, done |-> TRUE]

\* flush, line 123: self.inner.flush()
flush_call(self, ch) ==
  LET r == Inner_flush(self.inner, ch)
  IN  [self |-> [self EXCEPT !.inner = r.h], buf |-> r.buf, res |-> r.res,
       done |-> TRUE]

(* ---------------- write_all / read_exact on a Checker ----------------- *)
(* Checker implements Write and Read by write/flush and read alone, so its  *)
(* write_all and read_exact are the provided methods of the traits: a loop  *)
(* over the Checker's own write (read) on the rest of the buffer, which     *)
(* goes on after Ok(n), tries again after an Interrupted error, and returns *)
(* any other error.                                                         *)
OkUnit == [ok |-> TRUE]

RECURSIVE Sum(_)
Sum(ns) == IF ns = <<>> THEN 0 ELSE Head(ns) + Sum(Tail(ns))

\* write_all: what the loop does with the result of self.write(buf)
write_all_match(restLen, res) ==
  IF res.ok
  THEN IF res.n = 0 THEN [act |-> "return", res |-> Err("WriteZero")]
       ELSE IF res.n = restLen THEN [act |-> "return", res |-> OkUnit]
       ELSE [act |-> "continue"]
  ELSE IF res.err = "Interrupted" THEN [act |-> "retry"]
                                  ELSE [act |-> "return", res |-> res]

\* read_exact: what the loop does with the result of self.read(buf)
read_exact_match(restLen, res) ==
  IF res.ok
  THEN IF res.n = 0 THEN [act |-> "return", res |-> Err("UnexpectedEof")]
       ELSE IF res.n = restLen THEN [act |-> "return", res |-> OkUnit]
       ELSE [act |-> "continue"]
  ELSE IF res.err = "Interrupted" THEN [act |-> "retry"]
                                  ELSE [act |-> "return", res |-> res]

\* no write_all or read_exact has been called
NoLoop == [kind |-> "none"]

(* ------------------------------- state -------------------------------- *)
VARIABLES
  self,       \* the Checker: [checker, inner]
  pc,         \* "idle", "inner" (call entered), "update" (inner replied Ok), "parts"
  op,         \* the call in progress, or the last one
  arg,        \* the buffer the caller passed
  buf,        \* the buffer as the call sees it now
  reply,      \* what the inner handle replied
  out,        \* the local `out` of read and write
  ret,        \* what the last operation returned to the caller
  old,        \* the value a swap handed back
  parts,      \* the tuple into_parts returned, while the caller holds it
  calls,      \* number of read/write/flush calls made
  swaps,      \* number of swaps, rebuilds and decompositions made
  pre,        \* the Checker as it was when the last operation was entered
  base,       \* the accumulator as it was when it was installed
  how,        \* the operation that installed it
  hist,       \* base and confirmed of the accumulator the last swap displaced
  fed,        \* bytes passed to update since the accumulator was installed
  confirmed,  \* buf[..n] of every successful inner read/write since then
  bare,       \* the same handle used directly, given the same calls
  bareRet,    \* what the bare handle returned
  lastOut,    \* what output() returned, while no other operation has been called since
  loop,       \* the write_all or read_exact in progress, or the last one
  innerBy,    \* "new", or "swap" once the inner handle has been swapped
  moved,      \* bytes the inner handles really moved since the accumulator was installed
  stream,     \* chunking check: the byte sequence S
  todo,       \* chunking check: the bytes of S not yet fed
  acc,        \* chunking check: the accumulator fed chunk by chunk
  nchunks     \* chunking check: number of update calls made

ioVars == <<self, pc, op, arg, buf, reply, out, ret, old, parts, calls, swaps, pre,
            base, how, hist,
            fed, confirmed, bare, bareRet, lastOut, loop, innerBy, moved>>
chunkVars == <<stream, todo, acc, nchunks>>
vars == <<self, pc, op, arg, buf, reply, out, ret, old, parts, calls, swaps, pre,
          base, how, hist,
          fed, confirmed, bare, bareRet, lastOut, loop, innerBy, moved, stream, todo, acc, nchunks>>

None == [op |-> "none"]

\* A Checker built by new_default (Counter) or new_default_hasher
Init ==
  /\ \E k \in Kinds, t \in {MkInner(<<0, 1, 1>>)} :
       /\ self = (IF k = "hasher" THEN new_default_hasher(t) ELSE new_default(k, t))
       /\ pre = self
       /\ base = DefaultOf(k)
       /\ bare = t
  /\ pc = "idle"
  /\ op = "none"
  /\ arg = <<>>
  /\ buf = <<>>
  /\ reply = None
  /\ out = 0
  /\ how = "new_default"
  /\ hist = None
  /\ ret = None
  /\ old = None
  /\ parts = <<>>
  /\ calls = 0
  /\ swaps = 0
  /\ fed = <<>>
  /\ confirmed = <<>>
  /\ bareRet = None
  /\ lastOut = None
  /\ loop = NoLoop
  /\ innerBy = "new"
  /\ moved = 0
  /\ stream = <<>>
  /\ todo = <<>>
  /\ acc = None
  /\ nchunks = 0

Ghost == UNCHANGED <<base, how, fed, confirmed>>

\* where a read or write returns to: the caller, or the loop that called it
AfterCall == IF loop.kind \in {"write_all", "read_exact"} /\ loop.on THEN "ret" ELSE "idle"

\* the caller enters read(buf)
ReadBegin ==
  /\ pc = "idle" /\ calls < MaxCalls
  /\ \E b \in ReadBufs : arg' = b /\ buf' = b
  /\ pc' = "inner" /\ op' = "read" /\ pre' = self /\ calls' = calls + 1
  /\ reply' = None /\ out' = 0 /\ ret' = None /\ old' = None /\ bareRet' = None
  /\ hist' = None /\ lastOut' = None /\ loop' = NoLoop
  /\ UNCHANGED <<self, parts, swaps, bare, moved, innerBy>> /\ Ghost
  /\ UNCHANGED chunkVars

\* the caller enters write(buf)
WriteBegin ==
  /\ pc = "idle" /\ calls < MaxCalls
  /\ \E b \in WriteBufs : arg' = b /\ buf' = b
  /\ pc' = "inner" /\ op' = "write" /\ pre' = self /\ calls' = calls + 1
  /\ reply' = None /\ out' = 0 /\ ret' = None /\ old' = None /\ bareRet' = None
  /\ hist' = None /\ lastOut' = None /\ loop' = NoLoop
  /\ UNCHANGED <<self, parts, swaps, bare, moved, innerBy>> /\ Ghost
  /\ UNCHANGED chunkVars

\* the caller enters flush()
FlushBegin ==
  /\ pc = "idle" /\ calls < MaxCalls
  /\ arg' = <<>> /\ buf' = <<>>
  /\ pc' = "inner" /\ op' = "flush" /\ pre' = self /\ calls' = calls + 1
  /\ reply' = None /\ out' = 0 /\ ret' = None /\ old' = None /\ bareRet' = None
  /\ hist' = None /\ lastOut' = None /\ loop' = NoLoop
  /\ UNCHANGED <<self, parts, swaps, bare, moved, innerBy>> /\ Ghost
  /\ UNCHANGED chunkVars

\* read: the inner handle replies; an error is returned at once
ReadInner ==
  /\ pc = "inner" /\ op = "read"
  /\ \E ch \in Choices("read", self.inner, buf) :
       LET r  == read_call(self, buf, ch)
           e  == Inner_read(self.inner, buf, ch)
           rb == Inner_read(bare, arg, ch)
       IN  /\ self' = r.self
           /\ buf' = r.buf
           /\ reply' = e.res
           /\ bare' = rb.h
           /\ bareRet' = [op |-> "read", res |-> rb.res, buf |-> rb.buf]
           /\ confirmed' = IF e.res.ok THEN confirmed \o SubSeq(e.buf, 1, e.res.n)
                                       ELSE confirmed
           /\ moved' = moved + Advance(self.inner, e.h)
           /\ IF r.done
              THEN /\ pc' = AfterCall /\ out' = 0
                   /\ ret' = [op |-> "read", res |-> r.res, buf |-> r.buf]
              ELSE /\ pc' = "update" /\ out' = r.res.n
                   /\ ret' = None
  /\ UNCHANGED <<op, arg, old, parts, calls, swaps, pre, base, how, hist, fed, lastOut,
                 innerBy, loop>>
  /\ UNCHANGED chunkVars

\* read: the accumulator is updated and the call returns Ok(out)
ReadUpdate ==
  /\ pc = "update" /\ op = "read"
  /\ LET f == read_finish(self, buf, out)
     IN  /\ self' = f.self
         /\ fed' = fed \o f.chunk
         /\ ret' = [op |-> "read", res |-> f.res, buf |-> buf]
  /\ pc' = AfterCall
  /\ UNCHANGED <<op, arg, buf, reply, out, old, parts, calls, swaps, pre, base, how,
                 hist, confirmed,
                 bare, bareRet, moved, lastOut, innerBy, loop>>
  /\ UNCHANGED chunkVars

\* write: the inner handle replies; an error is returned at once
WriteInner ==
  /\ pc = "inner" /\ op = "write"
  /\ \E ch \in Choices("write", self.inner, buf) :
       LET r  == write_call(self, buf, ch)
           e  == Inner_write(self.inner, buf, ch)
           rb == Inner_write(bare, arg, ch)
       IN  /\ self' = r.self
           /\ buf' = r.buf
           /\ reply' = e.res
           /\ bare' = rb.h
           /\ bareRet' = [op |-> "write", res |-> rb.res, buf |-> rb.buf]
           /\ confirmed' = IF e.res.ok THEN confirmed \o SubSeq(e.buf, 1, e.res.n)
                                       ELSE confirmed
           /\ moved' = moved + Advance(self.inner, e.h)
           /\ IF r.done
              THEN /\ pc' = AfterCall /\ out' = 0
                   /\ ret' = [op |-> "write", res |-> r.res, buf |-> r.buf]
              ELSE /\ pc' = "update" /\ out' = r.res.n
                   /\ ret' = None
  /\ UNCHANGED <<op, arg, old, parts, calls, swaps, pre, base, how, hist, fed, lastOut,
                 innerBy, loop>>
  /\ UNCHANGED chunkVars

\* write: the accumulator is updated and the call returns Ok(out)
WriteUpdate ==
  /\ pc = "update" /\ op = "write"
  /\ LET f == write_finish(self, buf, out)
     IN  /\ self' = f.self
         /\ fed' = fed \o f.chunk
         /\ ret' = [op |-> "write", res |-> f.res, buf |-> buf]
  /\ pc' = AfterCall
  /\ UNCHANGED <<op, arg, buf, reply, out, old, parts, calls, swaps, pre, base, how,
                 hist, confirmed,
                 bare, bareRet, moved, lastOut, innerBy, loop>>
  /\ UNCHANGED chunkVars

\* flush: the inner handle replies and the call returns its result
FlushInner ==
  /\ pc = "inner" /\ op = "flush"
  /\ \E ch \in Choices("flush", self.inner, buf) :
       LET r  == flush_call(self, ch)
           e  == Inner_flush(self.inner, ch)
           rb == Inner_flush(bare, ch)
       IN  /\ self' = r.self
           /\ reply' = e.res
           /\ bare' = rb.h
           /\ bareRet' = [op |-> "flush", res |-> rb.res, buf |-> rb.buf]
           /\ ret' = [op |-> "flush", res |-> r.res, buf |-> r.buf]
  /\ pc' = "idle"
  /\ UNCHANGED <<op, arg, buf, out, old, parts, calls, swaps, pre, hist, lastOut, moved,
                 innerBy, loop>>
  /\ Ghost
  /\ UNCHANGED chunkVars

(* ----------------------- write_all / read_exact ----------------------- *)
\* the bytes of the loop's buffer not yet transferred
Rest(l) == SubSeq(l.buf, Sum(l.ns) + 1, Len(l.buf))

\* the caller enters write_all(buf) or read_exact(buf)
LoopBegin(kind, b) ==
  /\ pc = "idle" /\ calls < MaxCalls
  /\ loop' = [kind |-> kind, on |-> TRUE, buf |-> b, ns |-> <<>>, fed0 |-> fed,
              c0 |-> self.checker, failed |-> None]
  /\ pc' = "loop" /\ op' = kind /\ arg' = b /\ buf' = b /\ pre' = self
  /\ reply' = None /\ out' = 0 /\ ret' = None /\ old' = None /\ bareRet' = None
  /\ hist' = None /\ lastOut' = None
  /\ UNCHANGED <<self, parts, calls, swaps, bare, moved, innerBy>> /\ Ghost
  /\ UNCHANGED chunkVars

\* (buffers of one byte make one call, as write and read do)
WriteAllBegin == \E b \in {w \in WriteBufs : Len(w) > 1} : LoopBegin("write_all", b)

ReadExactBegin == \E b \in {r \in ReadBufs : Len(r) > 1} : LoopBegin("read_exact", b)

\* the loop calls self.write / self.read on the rest of the buffer
LoopCall ==
  /\ pc = "loop" /\ calls < MaxCalls
  /\ arg' = Rest(loop) /\ buf' = Rest(loop)
  /\ pc' = "inner" /\ op' = (IF loop.kind = "write_all" THEN "write" ELSE "read")
  /\ pre' = self /\ calls' = calls + 1
  /\ reply' = None /\ out' = 0 /\ ret' = None /\ bareRet' = None
  /\ UNCHANGED <<self, old, hist, lastOut, loop, parts, swaps, bare, moved, innerBy>>
  /\ Ghost
  /\ UNCHANGED chunkVars

\* the loop looks at what the call returned: go on, try again, or return
LoopRet ==
  /\ pc = "ret"
  /\ LET m  == IF loop.kind = "write_all"
               THEN write_all_match(Len(Rest(loop)), ret.res)
               ELSE read_exact_match(Len(Rest(loop)), ret.res)
         l1 == [loop EXCEPT
                  !.ns = IF ret.res.ok THEN Append(@, ret.res.n) ELSE @,
                  !.buf = IF loop.kind = "read_exact" /\ ret.res.ok
                          THEN SubSeq(@, 1, Sum(loop.ns)) \o ret.buf ELSE @,
                  !.failed = IF ret.res.ok THEN @ ELSE ret.res]
     IN  IF m.act = "return"
         THEN /\ pc' = "idle" /\ op' = loop.kind
              /\ ret' = [op |-> loop.kind, res |-> m.res, buf |-> l1.buf]
              /\ loop' = [l1 EXCEPT !.on = FALSE]
         ELSE /\ pc' = "loop" /\ op' = loop.kind
              /\ ret' = None
              /\ loop' = l1
  /\ UNCHANGED <<self, arg, buf, reply, out, old, parts, calls, swaps, pre, hist,
                 bare, bareRet, lastOut, innerBy, moved>>
  /\ Ghost
  /\ UNCHANGED chunkVars

(* ------------------- swaps, decomposition, output --------------------- *)
\* outside a call its locals are gone
IoFrame ==
  /\ op' = "none" /\ arg' = <<>> /\ buf' = <<>> /\ reply' = None /\ out' = 0
  /\ bareRet' = None /\ loop' = NoLoop
  /\ UNCHANGED calls

Swap == swaps < MaxSwaps /\ swaps' = swaps + 1

\* replace_checker(new) with an accumulator of the same type
ReplaceChecker ==
  /\ pc = "idle" /\ Swap
  /\ \E c2 \in NewCheckers(self.checker.kind) :
       LET r == replace_checker(self, c2)
       IN  /\ self' = r.self
           /\ old' = [op |-> "replace_checker", val |-> r.old]
           /\ base' = c2
  /\ ret' = [op |-> "replace_checker"]
  /\ how' = "replace_checker" /\ hist' = [base |-> base, confirmed |-> confirmed]
  /\ pre' = self /\ fed' = <<>> /\ confirmed' = <<>> /\ moved' = 0 /\ lastOut' = None
  /\ UNCHANGED innerBy
  /\ IoFrame /\ UNCHANGED <<pc, parts, bare>>
  /\ UNCHANGED chunkVars

\* reset_hasher(), defined for Checker<DefaultHasher, T>
ResetHasher ==
  /\ pc = "idle" /\ Swap /\ self.checker.kind = "hasher"
  /\ LET r == reset_hasher(self)
     IN  /\ self' = r.self
         /\ old' = [op |-> "reset_hasher", val |-> r.old]
         /\ base' = r.self.checker
  /\ ret' = [op |-> "reset_hasher"]
  /\ how' = "reset_hasher" /\ hist' = [base |-> base, confirmed |-> confirmed]
  /\ pre' = self /\ fed' = <<>> /\ confirmed' = <<>> /\ moved' = 0 /\ lastOut' = None
  /\ UNCHANGED innerBy
  /\ IoFrame /\ UNCHANGED <<pc, parts, bare>>
  /\ UNCHANGED chunkVars

\* replace_inner(new); the bare handle in use is replaced alike
ReplaceInner ==
  /\ pc = "idle" /\ Swap
  /\ \E t2 \in NewInners :
       LET r == replace_inner(self, t2)
       IN  /\ self' = r.self
           /\ old' = [op |-> "replace_inner", val |-> r.old]
           /\ bare' = t2
  /\ ret' = [op |-> "replace_inner"] /\ innerBy' = "swap"
  /\ pre' = self /\ hist' = None /\ lastOut' = None
  /\ IoFrame /\ Ghost /\ UNCHANGED <<pc, parts, moved>>
  /\ UNCHANGED chunkVars

\* into_parts(): the Checker is consumed, the caller holds the parts
IntoParts ==
  /\ pc = "idle" /\ Swap
  /\ parts' = into_parts(self)
  /\ self' = Moved
  /\ pc' = "parts"
  /\ ret' = [op |-> "into_parts"]
  /\ pre' = self /\ hist' = None
  /\ IoFrame /\ Ghost /\ old' = None /\ lastOut' = None /\ UNCHANGED <<bare, moved, innerBy>>
  /\ UNCHANGED chunkVars

\* Checker::new on the two parts the caller holds
New ==
  /\ pc = "parts"
  /\ self' = new(parts[1], parts[2])
  /\ parts' = <<>>
  /\ pc' = "idle"
  /\ ret' = [op |-> "new"]
  /\ base' = parts[1] /\ how' = "new" /\ fed' = <<>> /\ confirmed' = <<>> /\ moved' = 0
  /\ lastOut' = None /\ UNCHANGED innerBy
  /\ hist' = None
  /\ IoFrame /\ UNCHANGED <<old, pre, bare, swaps>>
  /\ UNCHANGED chunkVars

\* rebuild_with_checker(c2); c2 may be of another type
RebuildWithChecker ==
  /\ pc = "idle" /\ Swap
  /\ \E k \in Kinds : \E c2 \in NewCheckers(k) :
       LET r == rebuild_with_checker(self, c2)
       IN  /\ self' = r.self
           /\ old' = [op |-> "rebuild_with_checker", val |-> r.old]
           /\ base' = c2
  /\ ret' = [op |-> "rebuild_with_checker"]
  /\ how' = "rebuild_with_checker" /\ hist' = [base |-> base, confirmed |-> confirmed]
  /\ pre' = self /\ fed' = <<>> /\ confirmed' = <<>> /\ moved' = 0 /\ lastOut' = None
  /\ UNCHANGED innerBy
  /\ IoFrame /\ UNCHANGED <<pc, parts, bare>>
  /\ UNCHANGED chunkVars

\* rebuild_with_inner(t2)
RebuildWithInner ==
  /\ pc = "idle" /\ Swap
  /\ \E t2 \in NewInners :
       LET r == rebuild_with_inner(self, t2)
       IN  /\ self' = r.self
           /\ old' = [op |-> "rebuild_with_inner", val |-> r.old]
           /\ bare' = t2
  /\ ret' = [op |-> "rebuild_with_inner"] /\ innerBy' = "swap"
  /\ pre' = self /\ hist' = None /\ lastOut' = None
  /\ IoFrame /\ Ghost /\ UNCHANGED <<pc, parts, moved>>
  /\ UNCHANGED chunkVars

\* output()
Output ==
  /\ pc = "idle"
  /\ LET r == output_call(self)
     IN  /\ self' = r.self
         /\ ret' = [op |-> "output", val |-> r.val]
         /\ lastOut' = [op |-> "output", val |-> r.val, again |-> lastOut # None]
  /\ pre' = self /\ hist' = None
  /\ IoFrame /\ Ghost /\ old' = None /\ UNCHANGED <<pc, parts, bare, swaps, moved, innerBy>>
  /\ UNCHANGED chunkVars

Next ==
  \/ ReadBegin \/ ReadInner \/ ReadUpdate
  \/ WriteBegin \/ WriteInner \/ WriteUpdate
  \/ FlushBegin \/ FlushInner
  \/ WriteAllBegin \/ ReadExactBegin \/ LoopCall \/ LoopRet
  \/ ReplaceChecker \/ ResetHasher \/ ReplaceInner
  \/ IntoParts \/ New
  \/ RebuildWithChecker \/ RebuildWithInner
  \/ Output

Spec == Init /\ [][Next]_vars

(* -------------------------- chunking check ---------------------------- *)
\* a fresh accumulator of either type and a byte sequence S to feed it
ChunkInit ==
  /\ stream \in SeqsUpTo(MaxStream)
  /\ todo = stream
  /\ \E k \in Kinds : acc = DefaultOf(k)
  /\ nchunks = 0
  /\ self = Moved /\ pc = "chunks" /\ op = "none" /\ arg = <<>> /\ buf = <<>>
  /\ reply = None /\ out = 0 /\ how = "none" /\ hist = None /\ ret = None /\ old = None /\ parts = <<>> /\ calls = 0 /\ swaps = 0
  /\ pre = Moved /\ base = None /\ fed = <<>> /\ confirmed = <<>>
  /\ bare = None /\ bareRet = None /\ lastOut = None /\ loop = NoLoop /\ innerBy = "none" /\ moved = 0

\* one update call with the next chunk of S (possibly empty)
Feed ==
  /\ nchunks < MaxStream + 1
  /\ \E k \in 0..Len(todo) :
       /\ acc' = update(acc, SubSeq(todo, 1, k))
       /\ todo' = SubSeq(todo, k + 1, Len(todo))
  /\ nchunks' = nchunks + 1
  /\ UNCHANGED stream
  /\ UNCHANGED ioVars

ChunkNext == Feed

ChunkSpec == ChunkInit /\ [][ChunkNext]_vars

(* ------------------------------ claims -------------------------------- *)
IoOps == {"read", "write", "flush"}

\* C1: between calls, the bytes passed to update since the accumulator was
\* installed are exactly the concatenation, in order, of buf[..n] of every
\* successful inner read/write since then, and output() is the value of the
\* installed accumulator updated with that concatenation.
InvC1 ==
  pc = "idle" =>
    /\ fed = confirmed
    /\ Checker_output(self) = output(update(base, confirmed))

\* a read was cut short after at least three bytes went through
WitC1 ==
  /\ pc = "idle" /\ op = "read" /\ ret.op = "read"
  /\ ret.res.ok /\ ret.res.n < Len(arg)
  /\ Len(fed) >= 3

\* C2: a Counter that started from the default counter reads, between calls,
\* the sum of the lengths the successful reads and writes returned.
InvC2 ==
  (pc = "idle" /\ self.checker.kind = "counter" /\ base = InnerCounter_default)
    => Checker_output(self) = Len(confirmed)

\* 2 bytes, then 1 byte, written to the sink of a new_default Counter: 3
WitC2 ==
  /\ pc = "idle" /\ calls = 2 /\ how = "new_default"
  /\ self.checker.kind = "counter"
  /\ self.inner.sink = <<0, 1, 1>> /\ confirmed = <<0, 1, 1>>
  /\ Checker_output(self) = 3

\* C3: when the inner call returned Ok(n) for a buffer longer than n, the
\* update that follows feeds exactly buf[..n]; a Counter grows by n.
PropC3 ==
  [][(pc = "update" /\ reply.ok /\ reply.n < Len(buf)) =>
       /\ fed' = fed \o SubSeq(buf, 1, reply.n)
       /\ self'.checker = update(self.checker, SubSeq(buf, 1, reply.n))
       /\ (self.checker.kind = "counter" =>
             self'.checker.n = self.checker.n + reply.n)]_vars

\* a write of 2 bytes of which the handle took 1, counted as 1
WitC3 ==
  /\ pc = "idle" /\ op = "write" /\ ret.op = "write"
  /\ Len(arg) = 2 /\ ret.res = Ok(1)
  /\ self.checker.kind = "counter"
  /\ self.checker.n = pre.checker.n + 1

\* C4: when the inner read, write or flush failed, the call returned that
\* very error and the accumulator is as it was when the call was entered.
InvC4 ==
  (pc = "idle" /\ op \in IoOps /\ reply # None /\ ~reply.ok) =>
    /\ ret.res = reply
    /\ self.checker = pre.checker
    /\ Checker_output(self) = Checker_output(pre)

\* a read failed after bytes had gone through
WitC4 ==
  /\ pc = "idle" /\ op = "read" /\ reply = Err("Other")
  /\ ret.op = "read" /\ ret.res = Err("Other")
  /\ fed # <<>>

\* C5: replace_checker hands back the accumulator held before, whose output
\* is the value for the bytes confirmed before the swap; the Checker then
\* reads the new accumulator's own value, and later only the bytes
\* transferred after the swap are added to it.
InvC5 ==
  /\ ret.op = "replace_checker" =>
       /\ old.val = pre.checker
       /\ output(old.val) = output(update(hist.base, hist.confirmed))
       /\ self.checker = base
       /\ Checker_output(self) = output(base)
       /\ self.inner = pre.inner
  /\ (pc = "idle" /\ how = "replace_checker") =>
       Checker_output(self) = output(update(base, confirmed))

\* the counter handed back reads 3, the Checker reads 0
WitC5 ==
  /\ ret.op = "replace_checker"
  /\ old.val.kind = "counter" /\ output(old.val) = 3
  /\ Checker_output(self) = 0

\* C6: a Checker rebuilt by new from the parts into_parts returned is the
\* Checker that was decomposed: same accumulator, same inner handle.
InvC6 ==
  ret.op = "new" =>
    /\ self = pre
    /\ Checker_output(self) = Checker_output(pre)
    /\ self.inner.pos = pre.inner.pos /\ self.inner.sink = pre.inner.sink

\* rebuilt after bytes had been read and counted or hashed
WitC6 ==
  /\ ret.op = "new"
  /\ self.inner.pos > 0
  /\ self.checker # DefaultOf(self.checker.kind)

InvC8 ==
  /\ pc \in {"idle", "inner", "update"} => self.inner = bare
  /\ (pc = "idle" /\ op \in IoOps) => ret = bareRet

\* a second call, a short read
WitC8 ==
  /\ pc = "idle" /\ calls = 2 /\ ret.op = "read"
  /\ ret.res = Ok(1) /\ Len(arg) = 2

\* C9: from the entry of a read or write to the reply of the inner handle the
\* accumulator is as it was at entry, and within a call it changes only in
\* the step that follows a successful reply.
PropC9 ==
  /\ [](pc = "inner" => (reply = None /\ self.checker = pre.checker /\ fed = confirmed))
  /\ [][(pc \in {"inner", "update"} /\ (self'.checker # self.checker \/ fed' # fed))
          => (pc = "update" /\ reply.ok /\ out = reply.n)]_vars

\* the inner write has confirmed 2 bytes and the accumulator is not yet updated
WitC9 ==
  /\ pc = "update" /\ op = "write" /\ reply = Ok(2)
  /\ self.checker = pre.checker /\ fed # confirmed

\* C10: flush returns what the inner flush returned, has the inner handle
\* flushed, and leaves the accumulator as it was.
InvC10 ==
  (pc = "idle" /\ op = "flush") =>
    /\ ret.res = reply
    /\ self.checker = pre.checker
    /\ Checker_output(self) = Checker_output(pre)
    /\ self.inner = Inner_flush(pre.inner, [ok |-> reply.ok, err |-> "Other"]).h

\* a successful flush of a sink that holds counted bytes
WitC10 ==
  /\ pc = "idle" /\ op = "flush" /\ reply.ok
  /\ self.inner.flushed > 0 /\ fed # <<>>

\* C11: output() leaves the accumulator and the inner handle as they were and
\* returns the value of the held accumulator; called again with no other
\* operation in between it returns the same value.
PropC11 ==
  /\ [](ret.op = "output" =>
          (self = pre /\ self.inner = bare /\ ret.val = Checker_output(pre)))
  /\ [][(ret'.op = "output" /\ lastOut # None) =>
          (ret'.val = lastOut.val /\ self' = self)]_vars

\* output() called twice in a row on a Counter that has counted 3 bytes
WitC11 ==
  /\ ret.op = "output" /\ lastOut # None /\ lastOut.again
  /\ self.checker.kind = "counter" /\ ret.val = 3
  /\ self.inner.sink = <<0, 1, 1>>

\* C12: reset_hasher hands back the hasher held before, whose output is the
\* value for the bytes confirmed before the reset, leaves the default hasher
\* installed as new_default_hasher would, does what
\* replace_checker(DefaultHasher::default()) does, and leaves the inner handle.
InvC12 ==
  ret.op = "reset_hasher" =>
    /\ old.val = pre.checker
    /\ output(old.val) = output(update(hist.base, hist.confirmed))
    /\ self.checker = DefaultHasher_default
    /\ Checker_output(self) = Checker_output(new_default_hasher(self.inner))
    /\ self = replace_checker(pre, DefaultHasher_default).self
    /\ old.val = replace_checker(pre, DefaultHasher_default).old
    /\ self.inner = pre.inner /\ self.inner = bare

\* a hasher that had hashed bytes read from the handle is reset
WitC12 ==
  /\ ret.op = "reset_hasher"
  /\ hist.confirmed # <<>> /\ self.inner.pos > 0
  /\ output(old.val) # Checker_output(self)

\* C13: replace_inner hands back the handle held before and installs the new
\* one, which receives the calls that follow, and leaves the accumulator
\* unchanged: it goes on accumulating the bytes confirmed by either handle.
InvC13 ==
  /\ ret.op = "replace_inner" =>
       /\ old.val = pre.inner
       /\ self.inner = bare /\ bare \in NewInners
       /\ self.checker = pre.checker
       /\ Checker_output(self) = Checker_output(pre)
  /\ (innerBy = "swap" /\ pc \in {"idle", "inner", "update"}) => self.inner = bare
  /\ (innerBy = "swap" /\ pc = "idle") =>
       /\ fed = confirmed
       /\ Checker_output(self) = output(update(base, confirmed))

\* a Counter reads 3: 2 bytes written to the old handle, 1 to the new one
WitC13 ==
  /\ pc = "idle" /\ innerBy = "swap" /\ how = "new_default"
  /\ self.checker.kind = "counter" /\ self.checker.n = 3
  /\ self.inner.sink = <<1>> /\ confirmed = <<0, 1, 1>>

\* C15: rebuild_with_checker yields the new accumulator with the same inner
\* handle, and hands back the old accumulator with its history;
\* rebuild_with_inner yields the new handle with the same accumulator, and
\* hands back the old handle; no update is made and no handle is touched.
InvC15 ==
  /\ ret.op = "rebuild_with_checker" =>
       /\ self.checker = base /\ base \in UNION {NewCheckers(k) : k \in Kinds}
       /\ self.inner = pre.inner /\ self.inner = bare
       /\ old.val = pre.checker
       /\ output(old.val) = output(update(hist.base, hist.confirmed))
  /\ ret.op = "rebuild_with_inner" =>
       /\ self.inner = bare /\ bare \in NewInners
       /\ self.checker = pre.checker
       /\ Checker_output(self) = Checker_output(pre)
       /\ old.val = pre.inner
       /\ fed = confirmed

\* a Counter that counted 2 bytes read is rebuilt with a hasher
WitC15 ==
  /\ ret.op = "rebuild_with_checker"
  /\ old.val.kind = "counter" /\ old.val.n = 2
  /\ self.checker.kind = "hasher" /\ self.inner.pos = 2

LoopSeen == loop.kind \in {"write_all", "read_exact"} /\ pc \in {"loop", "idle"}

\* what the accumulator of the loop holds when exactly the confirmed bytes
\* of its calls have been fed
LoopExact ==
  /\ fed = loop.fed0 \o SubSeq(loop.buf, 1, Sum(loop.ns))
  /\ Checker_output(self) = output(update(loop.c0, SubSeq(loop.buf, 1, Sum(loop.ns))))
  /\ self.checker.kind = "counter" => self.checker.n = loop.c0.n + Sum(loop.ns)

\* C14 as stated: once an inner call of write_all / read_exact has failed
\* after k successful ones, the operation has returned that error and the
\* accumulator holds exactly the bytes confirmed before it.
OrigC14 ==
  (LoopSeen /\ loop.failed # None /\ Len(loop.ns) >= 1) =>
    (pc = "idle" /\ ret.res = loop.failed /\ LoopExact)

\* C14, amended: a failed inner call of write_all / read_exact adds nothing to
\* the accumulator, which holds exactly the bytes the successful calls
\* confirmed; an error other than Interrupted is what the operation returns,
\* while after an Interrupted error the loop calls again.
InvC14 ==
  /\ LoopSeen => LoopExact
  /\ (LoopSeen /\ loop.failed # None /\ loop.failed.err # "Interrupted") =>
       (pc = "idle" /\ ret.op = loop.kind /\ ret.res = loop.failed)
  /\ (pc = "ret" /\ ~ret.res.ok) =>
       (ret.res = reply /\ self.checker = pre.checker
        /\ fed = loop.fed0 \o SubSeq(loop.buf, 1, Sum(loop.ns)))

\* write_all on a Counter: one call took 1 byte, the next failed; 1 is counted
WitC14 ==
  /\ pc = "idle" /\ loop.kind = "write_all" /\ loop.ns = <<1>>
  /\ loop.failed = Err("Other") /\ ret.res = Err("Other")
  /\ self.checker.kind = "counter" /\ self.checker.n = loop.c0.n + 1
  /\ Len(self.inner.sink) > Len(pre.inner.sink)

=============================================================================
